---- MODULE Spec2Model ----
(***************************************************************************)
(* The Event Gateway plugin of src/src/index.js as a state machine.        *)
(*                                                                         *)
(* JavaScript strings that the code inspects or builds (methods, paths,    *)
(* ARNs, ids) are sequences of their pieces, so toUpperCase, startsWith,   *)
(* split/join and the template literals are computed: a method is spelled  *)
(* letter by letter, and in a path or an ARN every "/" and ":" is a piece  *)
(* of its own.  The value `undefined` is the sequence Undefined.  One step *)
(* the model is one run-to-completion turn of the event loop: the code     *)
(* from the settling of an awaited call up to the next awaits, the         *)
(* microtasks it queues included.                                          *)
(***************************************************************************)
EXTENDS Bags, FiniteSets, Integers, Sequences, TLC

VARIABLES
  custom,            \* serverless.service.custom.eventgateway
  token,             \* process.env.EVENT_GATEWAY_TOKEN
  service,           \* serverless.service functions: name -> [events]
  stack,             \* what describeStacks answered
  gwFunctions,       \* the gateway: registered functions
  gwSubscriptions,   \* the gateway: subscriptions
  pc,                \* configureEventGateway: where the hook is
  error,             \* the error the hook threw, Undefined while none
  outputs,           \* const outputs (line 125)
  functions,         \* let functions (line 130)
  subscriptions,     \* let subscriptions (line 130)
  unit,              \* per declared name: the map callback (line 142)
  evUnit,            \* per <<name, i>>: the forEach callback (lines 166, 176)
  delUnit,           \* per functionId: the forEach callback (line 201)
  registerCalls,     \* eg.registerFunction calls issued
  subscribeCalls,    \* eg.subscribe calls issued
  unsubscribeCalls,  \* eg.unsubscribe calls issued
  deleteCalls,       \* eg.deleteFunction calls issued
  listCalls,         \* eg.listFunctions / eg.listSubscriptions calls issued
  consoleLog,        \* lines written with serverless.cli.consoleLog
  failures,          \* gateway calls rejected so far
  resolvedConfig,    \* const config (lines 73, 101): what getConfig() returned
  clients,           \* the SDK clients constructed (line 93)
  options,           \* this.options: the command line of emitremote
  template,          \* provider.compiledCloudFormationTemplate
  templateBefore,    \* the template as addUserDefinition found it
  emitPc,            \* emitEvent: where the hook is
  emitError,         \* the error emitEvent threw
  emitCalls          \* eg.emit calls issued

vars == <<custom, token, service, stack, gwFunctions, gwSubscriptions, pc, error,
          outputs, functions, subscriptions, unit, evUnit, delUnit,
          registerCalls, subscribeCalls, unsubscribeCalls, deleteCalls,
          listCalls, consoleLog, failures, resolvedConfig, clients, options, template,
          templateBefore, emitPc, emitError, emitCalls>>

-----------------------------------------------------------------------------
(* Bounds *)

MaxEvents == 2      \* events declared on one function
MaxFailures == 1    \* gateway calls the gateway rejects in one run

-----------------------------------------------------------------------------
(* JavaScript values *)

Undefined == <<"undefined">>

Falsy(v) == v = Undefined \/ v = <<>>

LowerCase == <<"a","b","c","d","e","f","g","h","i","j","k","l","m",
               "n","o","p","q","r","s","t","u","v","w","x","y","z">>

UpperCase == <<"A","B","C","D","E","F","G","H","I","J","K","L","M",
               "N","O","P","Q","R","S","T","U","V","W","X","Y","Z">>

UpperChar(c) ==
  IF \E i \in DOMAIN LowerCase : LowerCase[i] = c
  THEN UpperCase[CHOOSE i \in DOMAIN LowerCase : LowerCase[i] = c]
  ELSE c

toUpperCase(s) == [i \in DOMAIN s |-> UpperChar(s[i])]

RECURSIVE split(_, _)
split(s, sep) ==
  IF \E i \in DOMAIN s : s[i] = sep
  THEN LET i == CHOOSE j \in DOMAIN s : s[j] = sep /\ \A k \in 1..(j - 1) : s[k] # sep
       IN  <<SubSeq(s, 1, i - 1)>> \o split(SubSeq(s, i + 1, Len(s)), sep)
  ELSE <<s>>

RECURSIVE join(_, _)
join(parts, sep) ==
  IF Len(parts) = 0 THEN <<>>
  ELSE IF Len(parts) = 1 THEN parts[1]
  ELSE parts[1] \o <<sep>> \o join(Tail(parts), sep)

slice(a, from, to) == SubSeq(a, from + 1, IF to < Len(a) THEN to ELSE Len(a))

Get(obj, key) == IF key \in DOMAIN obj THEN obj[key] ELSE Undefined

-----------------------------------------------------------------------------
(* The project: serverless.yml *)

Acme == <<"acme">>
Key == <<"k">>
Http == <<"http">>
UserCreated == <<"user.created">>
Hello == <<"/", "hello">>
Hi == <<"hi">>

NoSection == [defined |-> FALSE]

ConfigPool ==
  { NoSection,
    [defined |-> TRUE, subdomain |-> Acme, apikey |-> Key],
    [defined |-> TRUE, apikey |-> Key],
    [defined |-> TRUE, subdomain |-> Acme] }

\* The events function a can declare: an http event with no method, one with an
\* empty method and a path without its slash, a custom event, an event of another kind.
EventPool ==
  { [eventgateway |-> [event |-> Http, path |-> Hello]],
    [eventgateway |-> [event |-> Http, path |-> Hi, method |-> <<>>]],
    [eventgateway |-> [event |-> UserCreated]],
    [schedule |-> <<"rate(1 hour)">>] }

\* The event function b can declare: an http event with a lower-case method.
GetHello == [eventgateway |-> [event |-> Http, path |-> Hello, method |-> <<"g","e","t">>]]

getAllFunctions == <<"a", "b">>

EventLists(pool, n) == UNION { [1..k -> pool] : k \in 1..n }

\* A function declares no events key, or a list of events.
FunctionPool(pool, n) ==
  { [handler |-> "h"] } \cup { [handler |-> "h", events |-> es] : es \in EventLists(pool, n) }

\* Function a declares up to MaxEvents events, function b at most one.
ServicePool ==
  { [name \in {"a", "b"} |-> IF name = "a" THEN fa ELSE fb] :
      fa \in FunctionPool(EventPool, MaxEvents),
      fb \in FunctionPool({GetHello}, 1) }

getFunction(name) == service[name]

-----------------------------------------------------------------------------
(* The cloud provider: the deployed stack *)

Region == <<"us-east-1">>

\* The function-version output: arn:aws:lambda:<region>:<account>:function:<name>:<version>
VersionArn(name) ==
  <<"arn", ":", "aws", ":", "lambda", ":">> \o Region
    \o <<":", "123456789012", ":", "function", ":", "svc-dev-" \o name, ":", "3">>

getLambdaVersionOutputLogicalId(name) == name \o "LambdaVersion"

AccessKeyOutput == [OutputKey |-> "EventGatewayUserAccessKey", OutputValue |-> <<"AKIA">>]
SecretKeyOutput == [OutputKey |-> "EventGatewayUserSecretKey", OutputValue |-> <<"secret">>]
VersionOutput(name) ==
  [OutputKey |-> getLambdaVersionOutputLogicalId(name), OutputValue |-> VersionArn(name)]

\* What describeStacks can answer: a rejection (err), or data with a Stacks list:
\* no stack, the full outputs, outputs without the secret key, outputs whose access
\* key has no value.
StackPool ==
  { [err |-> TRUE, Stacks |-> <<>>],
    [err |-> FALSE, Stacks |-> <<>>],
    [err |-> FALSE, Stacks |-> <<[Outputs |->
        <<AccessKeyOutput, SecretKeyOutput, VersionOutput("a"), VersionOutput("b")>>]>>],
    [err |-> FALSE, Stacks |-> <<[Outputs |->
        <<AccessKeyOutput, VersionOutput("a"), VersionOutput("b")>>]>>],
    [err |-> FALSE, Stacks |-> <<[Outputs |->
        <<[OutputKey |-> "EventGatewayUserAccessKey", OutputValue |-> <<>>], SecretKeyOutput,
          VersionOutput("a"), VersionOutput("b")>>]>>] }

NoResponse == [pending |-> TRUE]

-----------------------------------------------------------------------------
(* The gateway, reached through the client eg *)

\* functionId and arn as the plugin derives them from the version ARN (lines 146-147)
arnOf(fullArn) == join(slice(split(fullArn, ":"), 0, 7), ":")
functionIdOf(fullArn) == split(fullArn, ":")[7]

GatewayFunction(name) ==
  [functionId |-> functionIdOf(VersionArn(name)), arn |-> arnOf(VersionArn(name))]

\* The gateway names a subscription after what identifies it.
subscriptionIdOf(s) == <<s.event, Get(s, "method"), s.functionId, s.path>>

GatewaySubscription(request) ==
  [k \in DOMAIN request \cup {"subscriptionId"} |->
     IF k = "subscriptionId" THEN subscriptionIdOf(request) ELSE request[k]]

GwFunctionPool == { GatewayFunction(n) : n \in {"a", "b"} }

GetHelloSubscription(name) ==
  GatewaySubscription([functionId |-> GatewayFunction(name).functionId, event |-> Http,
                       path |-> <<"/">> \o Acme \o Hello, cors |-> Undefined,
                       method |-> <<"G","E","T">>])

UserCreatedSubscription(name) ==
  GatewaySubscription([functionId |-> GatewayFunction(name).functionId, event |-> UserCreated,
                       path |-> <<"/">> \o Acme \o <<"/">>, cors |-> Undefined])

GwSubscriptionPool ==
  { GetHelloSubscription("a"), UserCreatedSubscription("a"), GetHelloSubscription("b") }

GatewayPool ==
  { g \in [functions : SUBSET GwFunctionPool, subscriptions : SUBSET GwSubscriptionPool] :
      \A s \in g.subscriptions : \E f \in g.functions : f.functionId = s.functionId }

-----------------------------------------------------------------------------
(* getConfig, lines 58-70, and getClient, lines 72-98 *)

\* `https://${config.subdomain}.eventgateway-dev.io`
eventsAPI(config) == <<"https://">> \o Get(config, "subdomain") \o <<".eventgateway-dev.io">>

configurationAPI == <<"https://config.eventgateway-dev.io/">>

\* The section after getConfig() ran: the two fields are written onto the section itself.
getConfig(section) ==
  IF section.defined
  THEN [k \in DOMAIN section \cup {"eventsAPI", "configurationAPI"} |->
          IF k = "eventsAPI" THEN eventsAPI(section)
          ELSE IF k = "configurationAPI" THEN configurationAPI
          ELSE section[k]]
  ELSE section

NoError == "none"
TypeError == "TypeError"

\* What getClient() throws for a section, NoError when it returns a client.
getClientError(section) ==
  IF ~section.defined THEN TypeError
  ELSE IF Falsy(Get(section, "subdomain"))
  THEN "Required \"subdomain\" property is missing from Event Gateway configuration provided in serverless.yaml"
  ELSE IF Falsy(Get(section, "apikey"))
  THEN "Required \"apikey\" property is missing from Event Gateway configuration provided in serverless.yaml"
  ELSE NoError

\* process.env.X = v stores String(v)
String(v) == IF v = Undefined THEN <<"u","n","d","e","f","i","n","e","d">> ELSE v

\* process.env.EVENT_GATEWAY_TOKEN after getClient() (line 74)
getClientToken(section, env) ==
  IF ~section.defined THEN env
  ELSE IF Falsy(Get(section, "apikey")) THEN String(env)
  ELSE section.apikey

\* What getConfig() returns: the section object itself, or null
Null == [null |-> TRUE]

getConfigReturns(section) == IF section.defined THEN getConfig(section) ELSE Null

\* const config before getConfig() was called
NotResolved == [resolved |-> FALSE]

\* Lines 93-97: the client getClient() constructs
SDK(cfg) ==
  [url |-> <<"http://localhost:4000">>, configurationUrl |-> <<"http://localhost:8080">>,
   space |-> cfg.subdomain]

\* Lines 72-98: the clients constructed so far, after one more getClient()
getClient(section, sdks) ==
  IF getClientError(section) = NoError THEN Append(sdks, SDK(section)) ELSE sdks

-----------------------------------------------------------------------------
(* eventPath, lines 309-317, and createSubscription, lines 326-342 *)

startsWith(s, c) == Len(s) > 0 /\ s[1] = c

eventPath(event, subdomain) ==
  LET path == IF Falsy(Get(event, "path")) THEN <<"/">> ELSE event.path
      slashed == IF ~startsWith(path, "/") THEN <<"/">> \o path ELSE path
  IN  <<"/">> \o subdomain \o slashed

\* event.method.toUpperCase() throws when the event declares no method
createSubscriptionThrows(event) ==
  event.event = Http /\ Get(event, "method") = Undefined

subscribeEvent(config, functionId, event) ==
  LET base == [functionId |-> functionId, event |-> event.event,
               path |-> eventPath(event, config.subdomain), cors |-> Get(event, "cors")]
  IN  IF event.event = Http
      THEN [k \in DOMAIN base \cup {"method"} |->
              IF k = "method"
              THEN IF Falsy(toUpperCase(event.method)) THEN <<"G","E","T">>
                   ELSE toUpperCase(event.method)
              ELSE base[k]]
      ELSE base

-----------------------------------------------------------------------------
(* filterFunctionsWithEvents, lines 211-230 *)

isGatewayEvent(e) == "eventgateway" \in DOMAIN e

\* Lines 217-224 without the search of line 221: any list of events qualifies
qualifiesWithAnyEvent(svc, name) == "events" \in DOMAIN svc[name]

qualifies(svc, name) ==
  /\ "events" \in DOMAIN svc[name]
  /\ \E i \in DOMAIN svc[name].events : isGatewayEvent(svc[name].events[i])

filterFunctionsWithEvents(svc) == SelectSeq(getAllFunctions, LAMBDA name : qualifies(svc, name))

-----------------------------------------------------------------------------
(* parseOutputs, lines 232-239 *)

RECURSIVE reduceOutputs(_, _)
reduceOutputs(list, agg) ==
  IF list = <<>> THEN agg
  ELSE LET current == Head(list)
           next == IF current.OutputKey # "" /\ ~Falsy(current.OutputValue)
                   THEN [k \in DOMAIN agg \cup {current.OutputKey} |->
                           IF k = current.OutputKey THEN current.OutputValue ELSE agg[k]]
                   ELSE agg
       IN  reduceOutputs(Tail(list), next)

parseOutputs(stk) == reduceOutputs(stk.Outputs, <<>>)

-----------------------------------------------------------------------------
(* The console lines of configureEventGateway *)

RegisteredLine(name, functionId) == [line |-> "registered", name |-> name, id |-> functionId]
SubscribedLine(name, event) == [line |-> "subscribed", name |-> name, event |-> event.event]
UnsubscribedLine(name, sub) == [line |-> "unsubscribed", name |-> name, event |-> sub.event]
DeletedLine(functionId) == [line |-> "deleted", id |-> functionId]

-----------------------------------------------------------------------------
(* One event of a function: the async forEach callbacks of lines 166-169 and 176-190 *)

\* Lines 167-168 and 185-186 without to() around the gateway calls: once a call has
\* been rejected the error goes up and no subscription is created any more
subscribeToUnlessFailed(config, name, i, functionId, e) ==
  IF failures > 0
  THEN [state |-> "aborted", calls |-> {}, log |-> {}]
  ELSE IF ~isGatewayEvent(e)
  THEN [state |-> TypeError, calls |-> {}, log |-> {}]
  ELSE IF createSubscriptionThrows(e.eventgateway)
  THEN [state |-> "done", calls |-> {}, log |-> {SubscribedLine(name, e.eventgateway)}]
  ELSE [state |-> "awaitSubscribe",
        calls |-> {[request |-> subscribeEvent(config, functionId, e.eventgateway),
                    name |-> name, index |-> i, status |-> "pending"]},
        log |-> {}]

\* Lines 167-168 and 185-186: create the subscription, then log.  A TypeError inside
\* createSubscription is caught by to(); one in the log line ends the callback.
subscribeTo(config, name, i, functionId, e) ==
  IF ~isGatewayEvent(e)
  THEN [state |-> TypeError, calls |-> {}, log |-> {}]
  ELSE IF createSubscriptionThrows(e.eventgateway)
  THEN [state |-> "done", calls |-> {}, log |-> {SubscribedLine(name, e.eventgateway)}]
  ELSE [state |-> "awaitSubscribe",
        calls |-> {[request |-> subscribeEvent(config, functionId, e.eventgateway),
                    name |-> name, index |-> i, status |-> "pending"]},
        log |-> {}]

\* Lines 179-181: the subscriptions of the working partition the event matches
matching(config, createdSubscriptions, event) ==
  { s \in createdSubscriptions :
      /\ s.event = event.event
      /\ Get(s, "method") = Get(event, "method")
      /\ s.path = eventPath(event, config.subdomain) }

\* Lines 176-190 for the i-th event, with the working partition as it stands
updateEvent(config, name, i, functionId, e, createdSubscriptions) ==
  IF ~isGatewayEvent(e)
  THEN [state |-> TypeError, calls |-> {}, log |-> {}, created |-> createdSubscriptions]
  ELSE LET found == matching(config, createdSubscriptions, e.eventgateway)
       IN  IF found = {}
           THEN LET r == subscribeTo(config, name, i, functionId, e)
                IN  [state |-> r.state, calls |-> r.calls, log |-> r.log,
                     created |-> createdSubscriptions]
           ELSE LET createdSubscription == CHOOSE s \in found : TRUE
                IN  [state |-> "matched", calls |-> {}, log |-> {},
                     created |-> { s \in createdSubscriptions :
                                     s.subscriptionId # createdSubscription.subscriptionId }]

RECURSIVE updateEvents(_, _, _, _, _, _)
updateEvents(config, name, functionId, events, i, acc) ==
  IF i > Len(events) THEN acc
  ELSE LET r == updateEvent(config, name, i, functionId, events[i], acc.created)
       IN  updateEvents(config, name, functionId, events, i + 1,
             [states |-> Append(acc.states, r.state), calls |-> acc.calls \cup r.calls,
              log |-> acc.log \cup r.log, created |-> r.created])

RECURSIVE subscribeAll(_, _, _, _, _, _)
subscribeAll(config, name, functionId, events, i, acc) ==
  IF i > Len(events) THEN acc
  ELSE LET r == subscribeTo(config, name, i, functionId, events[i])
       IN  subscribeAll(config, name, functionId, events, i + 1,
             [states |-> Append(acc.states, r.state), calls |-> acc.calls \cup r.calls,
              log |-> acc.log \cup r.log])

-----------------------------------------------------------------------------
(* configureEventGateway, lines 142-208: the code that runs when the          *)
(* subscription list has arrived, up to the first await of every callback     *)

\* Line 172 with the filtered array dropped: the working set stays as it was
removeFunctionKeepsAll(fns, functionId) == fns

\* Line 172: the matched function leaves the working set
removeFunction(fns, functionId) == { f \in fns : f.functionId # functionId }

\* Lines 143-197 for one declared name, up to its first await
mapCallback(config, outs, svc, subs, name, acc) ==
  LET outputKey == getLambdaVersionOutputLogicalId(name)
      fullArn == Get(outs, outputKey)
  IN  IF fullArn = Undefined
      THEN [acc EXCEPT !.unit[name] = TypeError]
      ELSE
        LET functionId == functionIdOf(fullArn)
            fn == [functionId |-> functionId, arn |-> arnOf(fullArn)]
            functionEvents == svc[name].events
            registeredFunction == { f \in acc.functions : f.functionId = functionId }
        IN  IF registeredFunction = {}
            THEN [acc EXCEPT
                    !.unit[name] = "awaitRegister",
                    !.registerCalls = @ \cup {[fn |-> fn, name |-> name, status |-> "pending"]}]
            ELSE
              LET r == updateEvents(config, name, functionId, functionEvents, 1,
                         [states |-> <<>>, calls |-> {}, log |-> {},
                          created |-> { s \in subs : s.functionId = functionId }])
              IN  [acc EXCEPT
                     !.functions = removeFunction(@, functionId),
                     !.unit[name] = "updated",
                     !.evUnit[name] = r.states,
                     !.subscribeCalls = @ \cup r.calls,
                     !.unsubscribeCalls = @ \cup
                        { [subscriptionId |-> sub.subscriptionId, by |-> "cleanup",
                           status |-> "pending"] : sub \in r.created },
                     !.log = @ \cup r.log \cup
                        { UnsubscribedLine(name, sub) : sub \in r.created }]

RECURSIVE mapCallbacks(_, _, _, _, _, _)
mapCallbacks(config, outs, svc, subs, names, acc) ==
  IF names = <<>> THEN acc
  ELSE mapCallbacks(config, outs, svc, subs, Tail(names),
                    mapCallback(config, outs, svc, subs, Head(names), acc))

subscriptionsToDelete(subs, functionToDelete) ==
  { s \in subs : s.functionId = functionToDelete.functionId }

\* Lines 201-208, up to the first await that does not settle at once:
\* Promise.all of an empty batch is already resolved, so deleteFunction follows at once.
deletePass(subs, fns) ==
  [unsubscribeCalls |->
     { [subscriptionId |-> toDelete.subscriptionId, by |-> "delete", status |-> "pending"] :
         toDelete \in UNION { subscriptionsToDelete(subs, f) : f \in fns } },
   deleteCalls |->
     { [functionId |-> f.functionId, status |-> "pending"] :
         f \in { g \in fns : subscriptionsToDelete(subs, g) = {} } },
   delUnit |->
     [id \in { f.functionId : f \in fns } |->
        IF \E s \in subs : s.functionId = id THEN "awaitUnsubscribes" ELSE "awaitDelete"]]

-----------------------------------------------------------------------------
(* emitEvent, lines 41-56: JSON.parse of the data option.  A text is the        *)
(* sequence of its characters; a parsed value carries its kind.                *)

JsonNumber(n) == [kind |-> "number", value |-> n]
JsonString(str) == [kind |-> "string", value |-> str]
JsonObject(fields) == [kind |-> "object", value |-> fields]

Digits == <<"0","1","2","3","4","5","6","7","8","9">>
isDigit(c) == \E i \in DOMAIN Digits : Digits[i] = c
digitValue(c) == (CHOOSE i \in DOMAIN Digits : Digits[i] = c) - 1

RECURSIVE skipWhitespace(_)
skipWhitespace(text) ==
  IF text # <<>> /\ Head(text) = " " THEN skipWhitespace(Tail(text)) ELSE text

SyntaxError == [ok |-> FALSE]
Parsed(v, rest) == [ok |-> TRUE, value |-> v, rest |-> rest]

RECURSIVE scanDigits(_, _)
scanDigits(text, n) ==
  IF text # <<>> /\ isDigit(Head(text))
  THEN scanDigits(Tail(text), 10 * n + digitValue(Head(text)))
  ELSE Parsed(JsonNumber(n), text)

\* The characters up to the closing quote
RECURSIVE scanString(_, _)
scanString(text, str) ==
  IF text = <<>> THEN SyntaxError
  ELSE IF Head(text) = "\"" THEN Parsed(JsonString(str), Tail(text))
  ELSE scanString(Tail(text), str \o Head(text))

RECURSIVE parseValue(_)
RECURSIVE parseMembers(_, _)

\* The members of an object after its opening brace, up to the closing brace
parseMembers(text0, fields) ==
  LET text == skipWhitespace(text0)
  IN  IF text = <<>> \/ Head(text) # "\"" THEN SyntaxError
      ELSE LET key == scanString(Tail(text), "")
           IN  IF ~key.ok THEN SyntaxError
               ELSE LET colon == skipWhitespace(key.rest)
                    IN  IF colon = <<>> \/ Head(colon) # ":" THEN SyntaxError
                        ELSE LET v == parseValue(Tail(colon))
                             IN  IF ~v.ok THEN SyntaxError
                                 ELSE LET name == key.value.value
                                          next == [f \in DOMAIN fields \cup {name} |->
                                                     IF f = name THEN v.value ELSE fields[f]]
                                          after == skipWhitespace(v.rest)
                                      IN  IF after = <<>> THEN SyntaxError
                                          ELSE IF Head(after) = "}"
                                          THEN Parsed(JsonObject(next), Tail(after))
                                          ELSE IF Head(after) = ","
                                          THEN parseMembers(Tail(after), next)
                                          ELSE SyntaxError

\* One JSON value: an object, a string, or a number without sign, fraction or exponent
parseValue(text0) ==
  LET text == skipWhitespace(text0)
  IN  IF text = <<>> THEN SyntaxError
      ELSE IF Head(text) = "{"
      THEN LET inner == skipWhitespace(Tail(text))
           IN  IF inner # <<>> /\ Head(inner) = "}"
               THEN Parsed(JsonObject(<<>>), Tail(inner))
               ELSE parseMembers(inner, <<>>)
      ELSE IF Head(text) = "\"" THEN scanString(Tail(text), "")
      ELSE IF isDigit(Head(text))
      THEN IF Head(text) = "0" /\ Len(text) > 1 /\ isDigit(text[2]) THEN SyntaxError
           ELSE scanDigits(text, 0)
      ELSE SyntaxError

\* Line 46 without JSON.parse: the data option is passed on as it was written
JSONparseSkipped(text) == Parsed(JsonString(text), <<>>)

\* JSON.parse (line 46): the whole text is one value
JSONparse(text) ==
  LET r == parseValue(text)
  IN  IF r.ok /\ skipWhitespace(r.rest) = <<>> THEN r ELSE SyntaxError

OrderCreated == <<"order.created">>

\* The data option: {"x":1}, not-json, {"x":1 (cut short), 7, {}, { "x" : 1, "y" : "a" }
DataPool ==
  { <<"{", "\"", "x", "\"", ":", "1", "}">>,
    <<"n", "o", "t", "-", "j", "s", "o", "n">>,
    <<"{", "\"", "x", "\"", ":", "1">>,
    <<"7">>,
    <<"{", "}">>,
    <<"{", " ", "\"", "x", "\"", " ", ":", " ", "1", ",", " ", "\"", "y", "\"", " ", ":", " ",
      "\"", "a", "\"", " ", "}">> }

OptionsPool == { [event |-> OrderCreated, data |-> d] : d \in DataPool }

NoOptions == [event |-> Undefined, data |-> Undefined]

\* Lines 48-54: the two lines logged when the emit call succeeded
EmittedLines(event) == { [line |-> "emitted", event |-> event], [line |-> "hint"] }

-----------------------------------------------------------------------------
(* addUserDefinition, lines 241-306: the template and lodash merge.  An object *)
(* or an array is its kind and its values by key; the keys of an array are its *)
(* indices "0", "1", ...                                                       *)

Str(str) == [kind |-> "string", value |-> str]
Obj(fields) == [kind |-> "object", value |-> fields]
Arr(elements) ==
  [kind |-> "array",
   value |-> [k \in { ToString(i - 1) : i \in DOMAIN elements } |->
                elements[CHOOSE i \in DOMAIN elements : ToString(i - 1) = k]]]

isObject(v) == v.kind \in {"object", "array"}

\* merge(object, source): every key of source is merged into object; an object or an
\* array of source is merged into what object holds under the key when that is of the
\* same shape, into a fresh one otherwise; any other value replaces what object holds
RECURSIVE merge(_, _)
merge(object, source) ==
  [kind |-> object.kind,
   value |->
     [k \in DOMAIN object.value \cup DOMAIN source.value |->
        IF k \notin DOMAIN source.value THEN object.value[k]
        ELSE LET srcValue == source.value[k]
                 has == k \in DOMAIN object.value
             IN  IF isObject(srcValue)
                 THEN LET newValue ==
                            IF srcValue.kind = "array"
                            THEN IF has /\ object.value[k].kind = "array"
                                 THEN object.value[k] ELSE Arr(<<>>)
                            ELSE IF has /\ isObject(object.value[k])
                                 THEN object.value[k] ELSE Obj(<<>>)
                      IN  merge(newValue, srcValue)
                 ELSE srcValue]]

getLambdaLogicalId(name) == name \o "LambdaFunction"

\* Lines 242-249
resources(svc) ==
  LET names == filterFunctionsWithEvents(svc)
  IN  Arr([i \in DOMAIN names |->
             Obj([a \in {"Fn::GetAtt"} |-> Arr(<<Str(getLambdaLogicalId(names[i])), Str("Arn")>>)])])

\* Lines 252-286
InjectedResources(svc) ==
  Obj([EventGatewayUser |-> Obj([Type |-> Str("AWS::IAM::User")]),
       EventGatewayUserPolicy |->
         Obj([Type |-> Str("AWS::IAM::ManagedPolicy"),
              Properties |->
                Obj([Description |->
                       Str("This policy allows Custom plugin to gather data on IAM users"),
                     PolicyDocument |->
                       Obj([Version |-> Str("2012-10-17"),
                            Statement |->
                              Arr(<<Obj([Effect |-> Str("Allow"),
                                         Action |-> Arr(<<Str("lambda:InvokeFunction")>>),
                                         Resource |-> resources(svc)])>>)]),
                     Users |-> Arr(<<Obj([Ref |-> Str("EventGatewayUser")])>>)])]),
       EventGatewayUserKeys |->
         Obj([Type |-> Str("AWS::IAM::AccessKey"),
              Properties |-> Obj([UserName |-> Obj([Ref |-> Str("EventGatewayUser")])])])])

\* Lines 291-304
InjectedOutputs ==
  Obj([EventGatewayUserAccessKey |->
         Obj([Value |-> Obj([Ref |-> Str("EventGatewayUserKeys")]),
              Description |-> Str("Access Key ID of Custom User")]),
       EventGatewayUserSecretKey |->
         Obj([Value |-> Obj([a \in {"Fn::GetAtt"} |->
                               Arr(<<Str("EventGatewayUserKeys"), Str("SecretAccessKey")>>)]),
              Description |-> Str("Secret Key of Custom User")])])

\* Lines 241-306: the template after the hook
addUserDefinition(tpl, svc) ==
  [Resources |-> merge(tpl.Resources, InjectedResources(svc)),
   Outputs |-> merge(tpl.Outputs, InjectedOutputs)]

\* The template the host tool starts every compilation from
CoreTemplate ==
  [Resources |-> Obj([ServerlessDeploymentBucket |-> Obj([Type |-> Str("AWS::S3::Bucket")])]),
   Outputs |-> Obj([ServerlessDeploymentBucketName |->
                      Obj([Value |-> Obj([Ref |-> Str("ServerlessDeploymentBucket")])])])]

EmptyTemplate == [Resources |-> Obj(<<>>), Outputs |-> Obj(<<>>)]

\* A project in which functions a and b both declare a gateway event
BothDeclare ==
  [name \in {"a", "b"} |-> [handler |-> "h", events |-> <<GetHello>>]]

\* What the hook can find: an empty template, the core template, a template that
\* holds the injected names already, from a compilation with two gateway functions
TemplatePool ==
  { EmptyTemplate, CoreTemplate, addUserDefinition(CoreTemplate, BothDeclare) }

NotCompiled == [compiled |-> FALSE]

-----------------------------------------------------------------------------
(* Initial states *)

\* No hook has run yet
Idle ==
  /\ token = Undefined
  /\ stack = NoResponse
  /\ pc = "idle"
  /\ error = NoError
  /\ outputs = <<>>
  /\ functions = {}
  /\ subscriptions = {}
  /\ unit = [name \in {"a", "b"} |-> "none"]
  /\ evUnit = [name \in {"a", "b"} |-> <<>>]
  /\ delUnit = <<>>
  /\ registerCalls = {}
  /\ subscribeCalls = {}
  /\ unsubscribeCalls = {}
  /\ deleteCalls = {}
  /\ listCalls = {}
  /\ consoleLog = {}
  /\ failures = 0
  /\ resolvedConfig = NotResolved
  /\ clients = <<>>
  /\ templateBefore = NotCompiled
  /\ emitPc = "idle"
  /\ emitError = NoError
  /\ emitCalls = {}

\* A deployment: the project, and the gateway as after:deploy:finalize finds it
Init ==
  /\ Idle
  /\ custom \in ConfigPool
  /\ service \in ServicePool
  /\ \E g \in GatewayPool :
       /\ gwFunctions = g.functions
       /\ gwSubscriptions = g.subscriptions
  /\ options = NoOptions
  /\ template = CoreTemplate

-----------------------------------------------------------------------------
(* configureEventGateway, lines 100-139 *)

gatewayVars == <<gwFunctions, gwSubscriptions>>
unitVars == <<unit, evUnit, delUnit>>
callVars == <<registerCalls, subscribeCalls, unsubscribeCalls, deleteCalls>>
listVars == <<outputs, functions, subscriptions>>
clientVars == <<resolvedConfig, clients>>
commandVars == <<options, template, templateBefore, emitPc, emitError, emitCalls>>

\* Lines 100-115: getConfig, getClient, the banner, the describeStacks request
Synchronize ==
  /\ pc = "idle"
  /\ custom' = getConfig(custom)
  /\ resolvedConfig' = getConfigReturns(custom)
  /\ token' = getClientToken(custom', token)
  /\ clients' = getClient(custom', clients)
  /\ IF getClientError(custom') # NoError
     THEN /\ pc' = "thrown"
          /\ error' = getClientError(custom')
          /\ UNCHANGED consoleLog
     ELSE /\ pc' = "describeStacks"
          /\ consoleLog' = consoleLog \cup {[line |-> "banner"]}
          /\ UNCHANGED error
  /\ UNCHANGED <<service, stack, gatewayVars, listVars, unitVars, callVars, listCalls, failures,
                 commandVars>>

\* Lines 116-128 with line 126 testing the access key alone
describeErrorAccessKeyOnly(data) ==
  IF data.err THEN "Error during fetching information about stack."
  ELSE IF data.Stacks = <<>> THEN "Unable to fetch CloudFormation stack information."
  ELSE IF Falsy(Get(parseOutputs(data.Stacks[Len(data.Stacks)]), "EventGatewayUserAccessKey"))
  THEN "Event Gateway Access Key or Secret Key not found in outputs"
  ELSE NoError

\* Lines 116-128: what the hook throws on the stack description, NoError when it goes on
describeError(data) ==
  IF data.err THEN "Error during fetching information about stack."
  ELSE IF data.Stacks = <<>> THEN "Unable to fetch CloudFormation stack information."
  ELSE LET outs == parseOutputs(data.Stacks[Len(data.Stacks)])
       IN  IF \/ Falsy(Get(outs, "EventGatewayUserAccessKey"))
              \/ Falsy(Get(outs, "EventGatewayUserSecretKey"))
           THEN "Event Gateway Access Key or Secret Key not found in outputs"
           ELSE NoError

pendingCall(op) == [op |-> op, status |-> "pending", result |-> {}]

\* Lines 116-131: the stack description arrives
DescribeStacksSettles ==
  /\ pc = "describeStacks"
  /\ \E data \in StackPool :
       /\ stack' = data
       /\ IF describeError(data) # NoError
          THEN /\ pc' = "thrown"
               /\ error' = describeError(data)
               /\ UNCHANGED listCalls
          ELSE /\ pc' = "listFunctions"
               /\ listCalls' = listCalls \cup {pendingCall("listFunctions")}
               /\ UNCHANGED error
       /\ outputs' = IF data.err \/ data.Stacks = <<>> THEN outputs
                     ELSE parseOutputs(data.Stacks[Len(data.Stacks)])
  /\ UNCHANGED <<custom, token, service, gatewayVars, functions, subscriptions,
                 unitVars, callVars, consoleLog, failures,
                 clientVars, commandVars>>

listSettled(op, ok, result) ==
  [op |-> op, status |-> IF ok THEN "resolved" ELSE "rejected", result |-> IF ok THEN result ELSE {}]

\* Lines 131-136: the function list arrives, or the call is rejected
ListFunctionsSettles ==
  /\ pc = "listFunctions"
  /\ \E ok \in BOOLEAN :
       /\ ~ok => failures < MaxFailures
       /\ failures' = IF ok THEN failures ELSE failures + 1
       /\ functions' = IF ok THEN gwFunctions ELSE functions
       /\ listCalls' = (listCalls \ {pendingCall("listFunctions")})
            \cup {listSettled("listFunctions", ok, gwFunctions), pendingCall("listSubscriptions")}
  /\ pc' = "listSubscriptions"
  /\ UNCHANGED <<custom, token, service, stack, gatewayVars, error, outputs, subscriptions,
                 unitVars, callVars, consoleLog,
                 clientVars, commandVars>>

\* Lines 136-209: the subscription list arrives, or the call is rejected; the map
\* callbacks and the deletion callbacks run to their first await and the hook returns
ListSubscriptionsSettles ==
  /\ pc = "listSubscriptions"
  /\ \E ok \in BOOLEAN :
       /\ ~ok => failures < MaxFailures
       /\ failures' = IF ok THEN failures ELSE failures + 1
       /\ LET subs == IF ok THEN gwSubscriptions ELSE subscriptions
              m == mapCallbacks(custom, outputs, service, subs,
                     filterFunctionsWithEvents(service),
                     [functions |-> functions, unit |-> unit, evUnit |-> evUnit,
                      registerCalls |-> registerCalls, subscribeCalls |-> subscribeCalls,
                      unsubscribeCalls |-> unsubscribeCalls, log |-> consoleLog])
              d == deletePass(subs, m.functions)
          IN  /\ subscriptions' = subs
              /\ functions' = m.functions
              /\ unit' = m.unit
              /\ evUnit' = m.evUnit
              /\ delUnit' = d.delUnit
              /\ registerCalls' = m.registerCalls
              /\ subscribeCalls' = m.subscribeCalls
              /\ unsubscribeCalls' = m.unsubscribeCalls \cup d.unsubscribeCalls
              /\ deleteCalls' = deleteCalls \cup d.deleteCalls
              /\ consoleLog' = m.log
              /\ listCalls' = (listCalls \ {pendingCall("listSubscriptions")})
                   \cup {listSettled("listSubscriptions", ok, gwSubscriptions)}
  /\ pc' = "returned"
  /\ UNCHANGED <<custom, token, service, stack, gatewayVars, error, outputs,
                 clientVars, commandVars>>

-----------------------------------------------------------------------------
(* The detached callbacks resume when the gateway answers *)

settled(c, ok) == [c EXCEPT !.status = IF ok THEN "resolved" ELSE "rejected"]

\* Lines 163-169: registerFunction settles; its rejection becomes the error of
\* registerFunction() (lines 319-324), which to() catches at line 163
RegisterFunctionSettles(c, ok) ==
  /\ c \in registerCalls /\ c.status = "pending"
  /\ ~ok => failures < MaxFailures
  /\ failures' = IF ok THEN failures ELSE failures + 1
  /\ gwFunctions' = IF ok
                    THEN { f \in gwFunctions : f.functionId # c.fn.functionId } \cup {c.fn}
                    ELSE gwFunctions
  /\ LET r == subscribeAll(custom, c.name, c.fn.functionId, getFunction(c.name).events, 1,
                [states |-> <<>>, calls |-> {}, log |-> {}])
     IN  /\ registerCalls' = (registerCalls \ {c}) \cup {settled(c, ok)}
         /\ consoleLog' = consoleLog \cup {RegisteredLine(c.name, c.fn.functionId)} \cup r.log
         /\ subscribeCalls' = subscribeCalls \cup r.calls
         /\ unit' = [unit EXCEPT ![c.name] = "registered"]
         /\ evUnit' = [evUnit EXCEPT ![c.name] = r.states]
  /\ UNCHANGED <<custom, token, service, stack, gwSubscriptions, pc, error, listVars,
                 delUnit, unsubscribeCalls, deleteCalls, listCalls,
                 clientVars, commandVars>>

\* Lines 167-168 and 185-186: subscribe settles; its rejection becomes the error of
\* createSubscription() (lines 338-341), which to() catches
SubscribeSettles(c, ok) ==
  /\ c \in subscribeCalls /\ c.status = "pending"
  /\ ~ok => failures < MaxFailures
  /\ failures' = IF ok THEN failures ELSE failures + 1
  /\ gwSubscriptions' =
       IF ok THEN gwSubscriptions \cup {GatewaySubscription(c.request)} ELSE gwSubscriptions
  /\ subscribeCalls' = (subscribeCalls \ {c}) \cup {settled(c, ok)}
  /\ consoleLog' = consoleLog \cup
       {SubscribedLine(c.name, getFunction(c.name).events[c.index].eventgateway)}
  /\ evUnit' = [evUnit EXCEPT ![c.name][c.index] = "done"]
  /\ UNCHANGED <<custom, token, service, stack, gwFunctions, pc, error, listVars,
                 unit, delUnit, registerCalls, unsubscribeCalls, deleteCalls, listCalls,
                 clientVars, commandVars>>

\* The unsubscribe calls of line 204 that make up the batch of one function to delete
batch(calls, functionId) ==
  { u \in calls : /\ u.by = "delete"
                  /\ \E s \in subscriptions : /\ s.subscriptionId = u.subscriptionId
                                              /\ s.functionId = functionId }

\* Lines 203-204 without to(): a rejected unsubscribe ends the callback
batchSettledUncaught(calls, ok) == ok /\ \A u \in calls : u.status = "resolved"

\* Lines 203-204: await to(Promise.all(...)) goes on when every call of the batch is
\* resolved, or as soon as one is rejected
batchSettled(calls, ok) == ~ok \/ \A u \in calls : u.status = "resolved"

\* Lines 194 and 203-206: unsubscribe settles.  Nothing waits for a cleanup call.
\* Promise.all of a batch settles when all its calls resolved or the first one is
\* rejected; to() catches the rejection and deleteFunction is requested.
UnsubscribeSettles(c, ok) ==
  /\ c \in unsubscribeCalls /\ c.status = "pending"
  /\ ~ok => failures < MaxFailures
  /\ failures' = IF ok THEN failures ELSE failures + 1
  /\ gwSubscriptions' =
       IF ok THEN { s \in gwSubscriptions : s.subscriptionId # c.subscriptionId }
       ELSE gwSubscriptions
  /\ LET calls == (unsubscribeCalls \ {c}) \cup {settled(c, ok)}
         waiting == { id \in DOMAIN delUnit :
                        /\ delUnit[id] = "awaitUnsubscribes"
                        /\ settled(c, ok) \in batch(calls, id)
                        /\ batchSettled(batch(calls, id), ok) }
     IN  /\ unsubscribeCalls' = calls
         /\ delUnit' = [id \in DOMAIN delUnit |->
                          IF id \in waiting THEN "awaitDelete" ELSE delUnit[id]]
         /\ deleteCalls' = deleteCalls \cup
              { [functionId |-> id, status |-> "pending"] : id \in waiting }
  /\ UNCHANGED <<custom, token, service, stack, gwFunctions, pc, error, listVars,
                 unit, evUnit, registerCalls, subscribeCalls, listCalls, consoleLog,
                 clientVars, commandVars>>

\* Lines 206-207: deleteFunction settles; to() catches a rejection
DeleteFunctionSettles(c, ok) ==
  /\ c \in deleteCalls /\ c.status = "pending"
  /\ ~ok => failures < MaxFailures
  /\ failures' = IF ok THEN failures ELSE failures + 1
  /\ gwFunctions' = IF ok THEN { f \in gwFunctions : f.functionId # c.functionId }
                    ELSE gwFunctions
  /\ deleteCalls' = (deleteCalls \ {c}) \cup {settled(c, ok)}
  /\ consoleLog' = consoleLog \cup {DeletedLine(c.functionId)}
  /\ delUnit' = [delUnit EXCEPT ![c.functionId] = "done"]
  /\ UNCHANGED <<custom, token, service, stack, gwSubscriptions, pc, error, listVars,
                 unit, evUnit, registerCalls, subscribeCalls, unsubscribeCalls, listCalls,
                 clientVars, commandVars>>

-----------------------------------------------------------------------------
(* The specification *)

Next ==
  \/ Synchronize
  \/ DescribeStacksSettles
  \/ ListFunctionsSettles
  \/ ListSubscriptionsSettles
  \/ \E c \in registerCalls, ok \in BOOLEAN : RegisterFunctionSettles(c, ok)
  \/ \E c \in subscribeCalls, ok \in BOOLEAN : SubscribeSettles(c, ok)
  \/ \E c \in unsubscribeCalls, ok \in BOOLEAN : UnsubscribeSettles(c, ok)
  \/ \E c \in deleteCalls, ok \in BOOLEAN : DeleteFunctionSettles(c, ok)

Spec == Init /\ [][Next]_vars

-----------------------------------------------------------------------------
(* The hooks package:compileEvents and emitremote:emit *)

syncVars == <<stack, gatewayVars, pc, error, listVars, unitVars, callVars, listCalls, failures>>

\* A packaging or an emitremote command: the project, the command line, the template
CommandInit ==
  /\ Idle
  /\ \/ custom \in { section \in ConfigPool : section.defined }
     \/ custom = NoSection
  /\ service \in ServicePool
  /\ gwFunctions = {}
  /\ gwSubscriptions = {}
  /\ options \in OptionsPool
  /\ template \in TemplatePool

\* Lines 241-306
AddUserDefinition ==
  /\ templateBefore' = template
  /\ template' = addUserDefinition(template, service)
  /\ UNCHANGED <<custom, token, service, syncVars, consoleLog, clientVars, options,
                 emitPc, emitError, emitCalls>>

\* Lines 41-47: getClient, then JSON.parse of the data option, then the emit request;
\* the hook returns with the request pending
EmitEvent ==
  /\ emitPc = "idle"
  /\ custom' = getConfig(custom)
  /\ resolvedConfig' = getConfigReturns(custom)
  /\ token' = getClientToken(custom', token)
  /\ clients' = getClient(custom', clients)
  /\ IF getClientError(custom') # NoError
     THEN /\ emitPc' = "thrown"
          /\ emitError' = getClientError(custom')
          /\ UNCHANGED emitCalls
     ELSE LET data == JSONparse(options.data)
          IN  IF ~data.ok
              THEN /\ emitPc' = "thrown"
                   /\ emitError' = "SyntaxError"
                   /\ UNCHANGED emitCalls
              ELSE /\ emitPc' = "returned"
                   /\ emitCalls' = emitCalls \cup
                        {[request |-> [event |-> options.event, data |-> data.value],
                          status |-> "pending"]}
                   /\ UNCHANGED emitError
  /\ UNCHANGED <<service, syncVars, consoleLog, options, template, templateBefore>>

\* Lines 47-55: the emit request settles; nothing handles a rejection
EmitSettles(c, ok) ==
  /\ c \in emitCalls /\ c.status = "pending"
  /\ emitCalls' = (emitCalls \ {c}) \cup {settled(c, ok)}
  /\ consoleLog' = IF ok THEN consoleLog \cup EmittedLines(c.request.event) ELSE consoleLog
  /\ UNCHANGED <<custom, token, service, syncVars, clientVars, options, template,
                 templateBefore, emitPc, emitError>>

CommandNext ==
  \/ AddUserDefinition
  \/ EmitEvent
  \/ \E c \in emitCalls, ok \in BOOLEAN : EmitSettles(c, ok)

CommandSpec == CommandInit /\ [][CommandNext]_vars

-----------------------------------------------------------------------------
(* What the claims speak of *)

Names == {"a", "b"}

\* The declared functions with at least one gateway event, and their gateway events
DeclaredGatewayFunctions == { n \in Names : qualifies(service, n) }

GatewayEventsOf(n) ==
  { i \in DOMAIN service[n].events : isGatewayEvent(service[n].events[i]) }

DeclaredEvent(n, i) == service[n].events[i].eventgateway

\* The functionId the deployed stack gives a declared function
IdOf(n) == GatewayFunction(n).functionId

DeclaredIds == { IdOf(n) : n \in DeclaredGatewayFunctions }

\* The identity of the subscription a declared gateway event stands for: its event
\* type, for http events its method in upper case (GET when absent or empty), and
\* the path /{subdomain}{path}
IntendedMethod(event) ==
  IF event.event # Http THEN Undefined
  ELSE IF Falsy(Get(event, "method")) THEN <<"G","E","T">>
  ELSE toUpperCase(event.method)

IntendedPath(event) ==
  LET declared == IF "path" \in DOMAIN event THEN event.path ELSE <<"/">>
  IN  <<"/">> \o Acme \o (IF Head(declared) = "/" THEN declared ELSE <<"/">> \o declared)

IntendedIdentity(n, i) ==
  <<DeclaredEvent(n, i).event, IntendedMethod(DeclaredEvent(n, i)), IdOf(n),
    IntendedPath(DeclaredEvent(n, i))>>

IntendedSubscriptions ==
  UNION { { IntendedIdentity(n, i) : i \in GatewayEventsOf(n) } : n \in DeclaredGatewayFunctions }

AllCalls == registerCalls \cup subscribeCalls \cup unsubscribeCalls \cup deleteCalls

\* synchronize() has returned and every unit of work it started has completed
Quiescent == pc = "returned" /\ \A c \in AllCalls : c.status # "pending"

Converged ==
  /\ { f.functionId : f \in gwFunctions } = DeclaredIds
  /\ { subscriptionIdOf(s) : s \in gwSubscriptions } = IntendedSubscriptions

\* C1: once synchronize() and all the work it started have completed with every
\* stack and gateway call succeeding, the gateway holds exactly the declared gateway
\* functions and, for each, exactly the subscriptions of its declared gateway events.
C1_Convergence == (Quiescent /\ failures = 0) => Converged

\* C2: when the gateway already holds exactly what the project declares, a
\* synchronize() whose calls all succeed issues no registerFunction, subscribe,
\* unsubscribe or deleteFunction call.  (While no issued call has settled the gateway
\* is still in the state the run found.)
C2_Idempotence ==
  (/\ pc = "returned" /\ failures = 0
   /\ \A c \in AllCalls : c.status = "pending"
   /\ Converged)
  => AllCalls = {}

\* The forEach callback of an event went on to create a subscription
HasToBeCreated(n, i) ==
  i \in DOMAIN evUnit[n] /\ evUnit[n][i] \in {"awaitSubscribe", "done"}

\* C3: for every declared http gateway event whose subscription has to be created, a
\* subscribe call is issued with the declared method in upper case, GET when the
\* method is absent or empty, and the path /{subdomain}{path}.
C3_HttpSubscribeRequest ==
  \A n \in DeclaredGatewayFunctions : \A i \in GatewayEventsOf(n) :
    (DeclaredEvent(n, i).event = Http /\ HasToBeCreated(n, i))
    => \E c \in subscribeCalls :
         /\ c.name = n /\ c.index = i
         /\ c.request.method = IntendedMethod(DeclaredEvent(n, i))
         /\ c.request.path = IntendedPath(DeclaredEvent(n, i))

\* The lists as this run fetched them
ListResult(op) == UNION { c.result : c \in { l \in listCalls : l.op = op } }
ListedFunctions == ListResult("listFunctions")
ListedSubscriptions == ListResult("listSubscriptions")
ListedIds == { f.functionId : f \in ListedFunctions }

Unregistered == { n \in DeclaredGatewayFunctions : IdOf(n) \notin ListedIds }
AlreadyRegistered == { n \in DeclaredGatewayFunctions : IdOf(n) \in ListedIds }

RegisterCallsFor(n) == { c \in registerCalls : c.fn.functionId = IdOf(n) }
SubscribeCallsFor(n) == { c \in subscribeCalls : c.request.functionId = IdOf(n) }
UnsubscribeCallsFor(s) == { c \in unsubscribeCalls : c.subscriptionId = s.subscriptionId }
DeleteCallsFor(id) == { c \in deleteCalls : c.functionId = id }

\* C4: for a declared gateway function that the fetched function list does not hold,
\* exactly one registerFunction call is issued and exactly one subscribe call per
\* declared gateway event, and no subscribe call of it is issued before the
\* registerFunction call has completed.
C4_RegisterThenSubscribe ==
  \A n \in Unregistered :
    /\ SubscribeCallsFor(n) # {} =>
         \E c \in RegisterCallsFor(n) : c.status # "pending"
    /\ Quiescent =>
         /\ Cardinality(RegisterCallsFor(n)) = 1
         /\ Cardinality(SubscribeCallsFor(n)) = Cardinality(GatewayEventsOf(n))
         /\ \A i \in GatewayEventsOf(n) :
              Cardinality({ c \in SubscribeCallsFor(n) : c.name = n /\ c.index = i }) = 1

SubscriptionsOf(id) == { s \in ListedSubscriptions : s.functionId = id }
IntendedOf(n) == { IntendedIdentity(n, i) : i \in GatewayEventsOf(n) }

\* C5: for a declared gateway function that is already registered, unsubscribe is
\* issued exactly once for each of its subscriptions that matches no declared event,
\* never for one that matches a declared event, and subscribe only for declared
\* events that match no existing subscription.
C5_StaleCleanup ==
  pc = "returned" =>
    \A n \in AlreadyRegistered :
      /\ \A s \in SubscriptionsOf(IdOf(n)) :
           IF subscriptionIdOf(s) \in IntendedOf(n)
           THEN UnsubscribeCallsFor(s) = {}
           ELSE Cardinality(UnsubscribeCallsFor(s)) = 1
      /\ \A c \in SubscribeCallsFor(n) :
           IntendedIdentity(c.name, c.index)
             \notin { subscriptionIdOf(s) : s \in SubscriptionsOf(IdOf(n)) }

\* The fetched functions that no declared gateway function maps to
Orphans == { f.functionId : f \in ListedFunctions } \ DeclaredIds

\* C6: for every registered function that belongs to no declared gateway function,
\* an unsubscribe call is issued for every subscription of it and then exactly one
\* deleteFunction call; deleteFunction is not issued before those unsubscribe calls
\* are, and it is issued all the same when an unsubscribe of the batch fails.
C6_OrphanDeletion ==
  /\ \A c \in deleteCalls : \A s \in SubscriptionsOf(c.functionId) :
       UnsubscribeCallsFor(s) # {}
  /\ pc = "returned" =>
       \A id \in Orphans : \A s \in SubscriptionsOf(id) :
         Cardinality(UnsubscribeCallsFor(s)) = 1
  /\ Quiescent =>
       \A id \in Orphans : Cardinality(DeleteCallsFor(id)) = 1

\* C6 witness: an orphan with two subscriptions, one of whose unsubscribe calls was
\* rejected, and its deleteFunction call settled
C6_Witness ==
  /\ Quiescent
  /\ \E id \in Orphans :
       /\ Cardinality(SubscriptionsOf(id)) = 2
       /\ \E s \in SubscriptionsOf(id) : \E u \in UnsubscribeCallsFor(s) : u.status = "rejected"
       /\ \E d \in DeleteCallsFor(id) : d.status = "resolved"

\* C7: deleteFunction is only ever issued for a function of the fetched list that no
\* declared gateway function maps to, in every interleaving of the detached units.
C7_DeclaredNeverDeleted ==
  \A c \in deleteCalls :
    /\ c.functionId \notin DeclaredIds
    /\ c.functionId \in ListedIds

\* C7 witness: a declared function found registered, next to an orphan being deleted
C7_Witness ==
  /\ AlreadyRegistered # {}
  /\ \E n \in AlreadyRegistered : unit[n] = "updated"
  /\ deleteCalls # {}

StackDescribeFailed == "Error during fetching information about stack."
StackNotFound == "Unable to fetch CloudFormation stack information."
MissingCredentialsOutput == "Event Gateway Access Key or Secret Key not found in outputs"

\* The last stack of the answer has no output of that key with a value
LacksOutput(data, key) ==
  \A i \in DOMAIN data.Stacks[Len(data.Stacks)].Outputs :
    LET o == data.Stacks[Len(data.Stacks)].Outputs[i]
    IN  o.OutputKey # key \/ o.OutputValue = <<>>

\* The error the answer to describeStacks calls for
StackFailure ==
  IF stack.err THEN StackDescribeFailed
  ELSE IF stack.Stacks = <<>> THEN StackNotFound
  ELSE IF \/ LacksOutput(stack, "EventGatewayUserAccessKey")
          \/ LacksOutput(stack, "EventGatewayUserSecretKey")
  THEN MissingCredentialsOutput
  ELSE NoError

\* C8: when the stack description is rejected, holds no stack, or lacks one of the
\* two credential outputs, synchronize() fails with the corresponding error and no
\* gateway call has been made.
C8_StackFailureIsFatal ==
  (stack # NoResponse /\ StackFailure # NoError)
  => /\ pc = "thrown"
     /\ error = StackFailure
     /\ listCalls = {}
     /\ AllCalls = {}

\* C8 witness: the stack lacks the secret key output and synchronize() has failed
C8_Witness ==
  /\ stack # NoResponse
  /\ ~stack.err /\ stack.Stacks # <<>>
  /\ LacksOutput(stack, "EventGatewayUserSecretKey")
  /\ ~LacksOutput(stack, "EventGatewayUserAccessKey")
  /\ pc = "thrown"

Rejected(op) == \E l \in listCalls : l.op = op /\ l.status = "rejected"

\* C9: a rejected listFunctions or listSubscriptions does not fail synchronize(); when
\* listFunctions is rejected, registerFunction is issued for every declared gateway
\* function and no deleteFunction; when listSubscriptions is rejected, no unsubscribe
\* is issued and subscribe is issued for every declared gateway event.
C9_ListFailureAsEmpty ==
  /\ (Rejected("listFunctions") \/ Rejected("listSubscriptions")) => pc # "thrown"
  /\ (Rejected("listFunctions") /\ pc = "returned") =>
       /\ \A n \in DeclaredGatewayFunctions : RegisterCallsFor(n) # {}
       /\ deleteCalls = {}
  /\ Rejected("listSubscriptions") =>
       /\ unsubscribeCalls = {}
       /\ Quiescent =>
            \A n \in DeclaredGatewayFunctions : \A i \in GatewayEventsOf(n) :
              \E c \in subscribeCalls : c.name = n /\ c.index = i

FunctionRegistrationFailed == "Couldn't register a function"

\* C10: when the gateway rejects registerFunction for a declared function, the unit
\* of work of that function ends in FunctionRegistrationFailed and no subscribe call
\* is issued for that function.
C10_RegistrationFailureStops ==
  \A c \in registerCalls :
    c.status = "rejected" =>
      /\ unit[c.name] = FunctionRegistrationFailed
      /\ SubscribeCallsFor(c.name) = {}

\* The unsubscribe calls issued for the subscriptions of a function
UnsubscribeCallsOf(id) ==
  UNION { UnsubscribeCallsFor(sub) : sub \in SubscriptionsOf(id) }

\* C16: during orphan-function deletion, deleteFunction for a function is never
\* issued while an unsubscribe call for one of that function's subscriptions is still
\* in flight, also when another unsubscribe of the same batch has failed.  (The
\* unsubscribe calls of a function are all issued before its deleteFunction, so one
\* that is pending next to the deleteFunction call was pending when that was issued.)
C16_DeleteAfterUnsubscribes ==
  \A d \in deleteCalls : \A u \in UnsubscribeCallsOf(d.functionId) : u.status # "pending"

\* The call a confirmation line reports
ReportedCalls(l) ==
  IF l.line = "registered"
  THEN { c \in registerCalls : c.name = l.name /\ c.fn.functionId = l.id }
  ELSE IF l.line = "subscribed"
  THEN { c \in subscribeCalls : c.name = l.name /\ c.request.event = l.event }
  ELSE IF l.line = "unsubscribed"
  THEN { c \in unsubscribeCalls :
           \E sub \in SubscriptionsOf(IdOf(l.name)) :
             sub.subscriptionId = c.subscriptionId /\ sub.event = l.event }
  ELSE IF l.line = "deleted"
  THEN { c \in deleteCalls : c.functionId = l.id }
  ELSE {}

ConfirmationLines == { l \in consoleLog : l.line \in {"registered", "subscribed", "unsubscribed", "deleted"} }

\* C17: every confirmation line synchronize() logs reports a gateway call that has
\* completed successfully: registered, subscribed, unsubscribed and deleted are
\* logged only after the registerFunction, subscribe, unsubscribe or deleteFunction
\* call they report has succeeded.
C17_ConfirmationAfterSuccess ==
  \A l \in ConfirmationLines : \E c \in ReportedCalls(l) : c.status = "resolved"

\* A qualifying function whose events list also holds an event of another kind
Mixed(n) ==
  /\ n \in DeclaredGatewayFunctions
  /\ \E i \in DOMAIN service[n].events : "eventgateway" \notin DOMAIN service[n].events[i]

SubscribeCallsAt(n, i) == { c \in subscribeCalls : c.name = n /\ c.index = i }

\* C18: for a qualifying function whose events list mixes gateway events with events
\* of other kinds, a non-gateway event causes no subscribe call, and the gateway
\* events get their subscribe calls all the same: one each when the function is newly
\* registered, one for each that matches no existing subscription when it is already
\* registered, where the stale subscriptions are unsubscribed as well.
C18_MixedEvents ==
  \A n \in Names : Mixed(n) =>
    /\ \A c \in subscribeCalls : c.name = n => c.index \in GatewayEventsOf(n)
    /\ (n \in Unregistered /\ unit[n] = "registered") =>
         \A i \in GatewayEventsOf(n) : Cardinality(SubscribeCallsAt(n, i)) = 1
    /\ (n \in AlreadyRegistered /\ pc = "returned") =>
         /\ \A i \in GatewayEventsOf(n) :
              IntendedIdentity(n, i) \notin { subscriptionIdOf(sub) : sub \in SubscriptionsOf(IdOf(n)) }
                => SubscribeCallsAt(n, i) # {}
         /\ \A sub \in SubscriptionsOf(IdOf(n)) :
              subscriptionIdOf(sub) \notin IntendedOf(n) => UnsubscribeCallsFor(sub) # {}

\* The function a gateway call was made for
FunctionOf(c) ==
  IF c \in registerCalls THEN c.fn.functionId
  ELSE IF c \in subscribeCalls THEN c.request.functionId
  ELSE IF c \in unsubscribeCalls THEN c.subscriptionId[3]
  ELSE c.functionId

\* A registerFunction, subscribe, unsubscribe or deleteFunction call of a function
\* other than id was rejected
FailureElsewhere(id) == \E c \in AllCalls : c.status = "rejected" /\ FunctionOf(c) # id

\* The gateway events a run without failures issues subscribe for: the http events
\* that declare no method are not among them (C3)
Subscribable(n) ==
  { i \in GatewayEventsOf(n) :
      ~(DeclaredEvent(n, i).event = Http /\ "method" \notin DOMAIN DeclaredEvent(n, i)) }

\* What the code compares an existing subscription with: the declared method as written
DeclaredIdentity(n, i) ==
  <<DeclaredEvent(n, i).event, Get(DeclaredEvent(n, i), "method"), IdOf(n),
    IntendedPath(DeclaredEvent(n, i))>>

\* C13: a failure of registerFunction, subscribe, unsubscribe or deleteFunction for
\* one function does not keep synchronize() from issuing the calls of every other
\* function: once all work is done, every other newly registered function has its one
\* registerFunction call and one subscribe call per event, every other registered
\* function its subscribe and unsubscribe calls, every other orphan its unsubscribe
\* calls and its one deleteFunction call, as in a run without the failure.
C13_PerFunctionIsolation ==
  Quiescent =>
    /\ \A n \in Unregistered : FailureElsewhere(IdOf(n)) =>
         /\ Cardinality(RegisterCallsFor(n)) = 1
         /\ \A i \in DOMAIN service[n].events :
              Cardinality(SubscribeCallsAt(n, i)) = IF i \in Subscribable(n) THEN 1 ELSE 0
    /\ \A n \in AlreadyRegistered : FailureElsewhere(IdOf(n)) =>
         /\ RegisterCallsFor(n) = {}
         /\ \A i \in Subscribable(n) :
              DeclaredIdentity(n, i) \notin { subscriptionIdOf(sub) : sub \in SubscriptionsOf(IdOf(n)) }
                => Cardinality(SubscribeCallsAt(n, i)) = 1
         /\ \A sub \in SubscriptionsOf(IdOf(n)) :
              subscriptionIdOf(sub) \notin { DeclaredIdentity(n, i) : i \in GatewayEventsOf(n) }
                => Cardinality(UnsubscribeCallsFor(sub)) = 1
    /\ \A id \in Orphans : FailureElsewhere(id) =>
         /\ \A sub \in SubscriptionsOf(id) : Cardinality(UnsubscribeCallsFor(sub)) = 1
         /\ Cardinality(DeleteCallsFor(id)) = 1

\* C13 witness: the unsubscribe of an orphan's subscription was rejected, and a newly
\* registered function has got its registerFunction and subscribe calls through
C13_Witness ==
  /\ Quiescent
  /\ \E u \in unsubscribeCalls : u.status = "rejected" /\ u.subscriptionId[3] \in Orphans
  /\ \E n \in Unregistered :
       /\ \E c \in RegisterCallsFor(n) : c.status = "resolved"
       /\ \E c \in SubscribeCallsFor(n) : c.status = "resolved"

MissingConfiguration == "No Event Gateway configuration provided in serverless.yaml"
MissingSubdomain ==
  "Required \"subdomain\" property is missing from Event Gateway configuration provided in serverless.yaml"
MissingApikey ==
  "Required \"apikey\" property is missing from Event Gateway configuration provided in serverless.yaml"

\* What createClient() has to answer for the project's section
ValidationOutcome ==
  IF ~custom.defined THEN MissingConfiguration
  ELSE IF "subdomain" \notin DOMAIN custom THEN MissingSubdomain
  ELSE IF "apikey" \notin DOMAIN custom THEN MissingApikey
  ELSE NoError

\* createClient() as a hook that called it saw it: it failed with the error e and
\* constructed no client, or returned the one client that was constructed
ClientOutcome(hookPc, hookError) ==
  IF ValidationOutcome = NoError
  THEN /\ Len(clients) = 1
       /\ clients[1].space = custom.subdomain
       /\ hookError \notin {MissingConfiguration, MissingSubdomain, MissingApikey, TypeError}
  ELSE /\ hookPc = "thrown"
       /\ hookError = ValidationOutcome
       /\ clients = <<>>

\* C11: createClient() fails with MissingConfiguration when the project has no
\* eventgateway section, with MissingField naming subdomain when the section lacks
\* subdomain (with or without apikey), with MissingField naming apikey when only
\* apikey is lacking; it returns a client only when both are present, and in every
\* failing case no client is constructed.
C11_CreateClientValidation ==
  /\ pc # "idle" => ClientOutcome(pc, error)
  /\ emitPc # "idle" => ClientOutcome(emitPc, emitError)

\* The payloads the data option can spell, by their text
Payloads ==
  { [text |-> <<"{", "\"", "x", "\"", ":", "1", "}">>,
     value |-> JsonObject([x |-> JsonNumber(1)])],
    [text |-> <<"7">>, value |-> JsonNumber(7)],
    [text |-> <<"{", "}">>, value |-> JsonObject(<<>>)],
    [text |-> <<"{", " ", "\"", "x", "\"", " ", ":", " ", "1", ",", " ", "\"", "y", "\"", " ", ":",
                " ", "\"", "a", "\"", " ", "}">>,
     value |-> JsonObject([x |-> JsonNumber(1), y |-> JsonString("a")])] }

ValidJson(text) == \E p \in Payloads : p.text = text
PayloadOf(text) == (CHOOSE p \in Payloads : p.text = text).value

\* The confirmation lines are in the log only if the emit call has succeeded
ConfirmedAfterSuccess ==
  (\E l \in consoleLog : l.line \in {"emitted", "hint"})
    => \E c \in emitCalls : c.status = "resolved"

\* With valid data and a valid configuration: exactly one emit call, with the event
\* option and the parsed payload
EmitsOnce ==
  (ValidJson(options.data) /\ ValidationOutcome = NoError)
    => emitCalls \in
         { {[request |-> [event |-> options.event, data |-> PayloadOf(options.data)],
             status |-> st]} : st \in {"pending", "resolved", "rejected"} }

C14_ResolveConfigNoSideEffects ==
  [][/\ custom' = custom
     /\ (resolvedConfig' # resolvedConfig /\ ~custom.defined) => resolvedConfig' = Null]_vars

\* The declared functions with at least one gateway event
HasGatewayEvent(n) ==
  /\ "events" \in DOMAIN service[n]
  /\ \E i \in DOMAIN service[n].events : "eventgateway" \in DOMAIN service[n].events[i]

GatewayFunctionNames == { n \in Names : HasGatewayEvent(n) }

InjectedResourceNames == {"EventGatewayUser", "EventGatewayUserPolicy", "EventGatewayUserKeys"}
InjectedOutputNames == {"EventGatewayUserAccessKey", "EventGatewayUserSecretKey"}

\* The template holds none of the injected names
Fresh(tpl) ==
  /\ DOMAIN tpl.Resources.value \cap InjectedResourceNames = {}
  /\ DOMAIN tpl.Outputs.value \cap InjectedOutputNames = {}

\* The reference to the ARN of a function's Lambda resource
ArnReference(n) ==
  Obj([a \in {"Fn::GetAtt"} |-> Arr(<<Str(n \o "LambdaFunction"), Str("Arn")>>)])

PolicyStatements(tpl) ==
  tpl.Resources.value.EventGatewayUserPolicy.value.Properties.value.PolicyDocument.value.Statement

PolicyResourceList(tpl) == PolicyStatements(tpl).value["0"].value.Resource

\* C15: after augmentTemplate() on a template that does not yet hold the injected
\* names, the Resource list of the EventGatewayUserPolicy statement holds exactly one
\* ARN reference per function with at least one gateway event (an empty list when no
\* function has one), the outputs EventGatewayUserAccessKey and
\* EventGatewayUserSecretKey are present, and every resource and output the template
\* held before is unchanged.
C15_TemplateAugmentation ==
  (templateBefore # NotCompiled /\ Fresh(templateBefore)) =>
    LET list == PolicyResourceList(template)
    IN  /\ DOMAIN PolicyStatements(template).value = {"0"}
        /\ list.kind = "array"
        /\ Cardinality(DOMAIN list.value) = Cardinality(GatewayFunctionNames)
        /\ { list.value[k] : k \in DOMAIN list.value }
             = { ArnReference(n) : n \in GatewayFunctionNames }
        /\ InjectedOutputNames \subseteq DOMAIN template.Outputs.value
        /\ \A k \in DOMAIN templateBefore.Resources.value :
             /\ k \in DOMAIN template.Resources.value
             /\ template.Resources.value[k] = templateBefore.Resources.value[k]
        /\ \A k \in DOMAIN templateBefore.Outputs.value :
             /\ k \in DOMAIN template.Outputs.value
             /\ template.Outputs.value[k] = templateBefore.Outputs.value[k]

\* C15 witness: the core template augmented for a project in which function a
\* declares only an event of another kind and function b a gateway event
C15_Witness ==
  /\ templateBefore = CoreTemplate
  /\ "events" \in DOMAIN service["a"] /\ ~HasGatewayEvent("a")
  /\ HasGatewayEvent("b")
  /\ PolicyResourceList(template) = Arr(<<ArnReference("b")>>)

====
